---- MODULE Spec2Model ----
(***************************************************************************)
(* A model of the retrieval core of the research-intelligence chatbot:     *)
(* VectorStoreManager (core/vector_store.py), RAGChain (core/chain.py),    *)
(* TavilySearchTool / HybridSearchManager (tools/tavily_search.py),        *)
(* ChatInterface (ui/chat_interface.py) and the query handling of          *)
(* main (app.py).                                                          *)
(*                                                                         *)
(* Two specifications share the state:                                     *)
(*   SpecVS  the VectorStoreManager / RAGChain API called directly, as the *)
(*           script test.py does;                                          *)
(*   Spec    one Streamlit session driving a ChatInterface.                *)
(*                                                                         *)
(* An optional value (Python None or a value) is a sequence of length 0 or *)
(* 1.  Text is a sequence of parts; "\n\n".join(parts) keeps the parts in  *)
(* order, so the sequence stands for the joined string.                    *)
(***************************************************************************)
EXTENDS Integers, Sequences, FiniteSets, TLC

VARIABLES
    vector_store,               \* VectorStoreManager._vector_store: None or the FAISS store's entries
    disk,                       \* for each path, the index persisted there: None or the saved entries
    ret,                        \* outcome of the last direct API call
    addLog,                     \* documents passed to add_documents so far, in call order
    addOnly,                    \* TRUE while add_documents is the only mutator called so far
    rag_chain,                  \* ChatInterface.rag_chain is not None
    hybrid_search,              \* ChatInterface.hybrid_search is not None
    uploaded_files,             \* st.session_state.uploaded_files
    vector_store_initialized,   \* st.session_state.vector_store_initialized
    upload_err,                 \* the error process_uploaded_files raised in this run ("" if none)
    ingest,                     \* all_chunks of the add_documents call in flight, <<>> when none is
    pc,                         \* position of the current run of main / get_response
    query,                      \* the prompt of the current query
    use_web_search,             \* the toggle of the current query
    response,                   \* what the provider returned to get_response's web search, None before
    web,                        \* get_response: (web_results, url) of line 102, None before
    doc_results,                \* get_response: documents retrieved for the context
    context,                    \* the context handed to generation, None before assembly
    out,                        \* fragments yielded by get_response so far
    service,                    \* the generation service: "none", "streaming", "ended" or "raised"
    err,                        \* the exception that ended the stream or get_sources ("" if none)
    sources,                    \* the list returned by get_sources
    calls,                      \* per query: calls made by get_response / get_sources
    reply                       \* what main showed and stored for the query

vars == <<vector_store, disk, ret, addLog, addOnly, rag_chain, hybrid_search,
          uploaded_files, vector_store_initialized, upload_err, ingest, pc, query,
          use_web_search, response, web, doc_results, context, out, service, err,
          sources, calls, reply>>

vsVars == <<vector_store, disk, ret, addLog, addOnly>>
uiVars == <<rag_chain, hybrid_search, uploaded_files, vector_store_initialized, upload_err,
            ingest>>
qVars  == <<pc, query, use_web_search, response, web, doc_results, context, out,
            service, err, sources, calls, reply>>

-----------------------------------------------------------------------------
(* Bounds of the model *)

\* most entries the index holds
MaxEntries == 3
\* most fragments one generation streams
MaxFragments == 2
\* most result items in one provider response
MaxWebResults == 2
\* most files in one process_uploaded_files call
MaxFiles == 2

(* Program constants *)

\* settings.TOP_K_RESULTS
TOP_K_RESULTS == 3

\* settings.CHUNK_SIZE and settings.CHUNK_OVERLAP
CHUNK_SIZE == 1000
CHUNK_OVERLAP == 200

-----------------------------------------------------------------------------
(* Values *)

None == <<>>
Some(x) == <<x>>

Range(s) == {s[i] : i \in 1..Len(s)}

SeqsUpTo(S, n) == UNION {[1..m -> S] : m \in 0..n}

\* list(s): every element kept, repeated or not
list_all(s) == s

\* list(set(s)): every distinct element of s once (Python leaves the order open;
\* here the order of first occurrence)
list_set(s) ==
    LET first == {i \in 1..Len(s) : \A j \in 1..(i - 1) : s[j] # s[i]}
    IN  [n \in 1..Cardinality(first) |->
            s[CHOOSE i \in first : Cardinality({j \in first : j < i}) = n - 1]]

\* chunks: page_content and metadata["source"]
Doc(src, txt) == [source |-> src, text |-> txt]
Docs == {Doc("a.pdf", "a1"), Doc("a.pdf", "a2"), Doc("b.txt", "b1")}

Queries == {"q1", "q2"}

\* a caller's k: omitted (None) or an integer
KArgs == {None} \cup {Some(k) : k \in -1..(MaxEntries + 1)}

\* a caller's path: omitted (None) or the configured index path
IndexPath == "faiss_index"
Paths == {IndexPath}
PathArgs == {None} \cup {Some(p) : p \in Paths}

\* files a caller may upload; the last is of an unsupported kind
Files == {"a.pdf", "b.txt", "e.txt", "x.doc"}

\* what doc_processor.process makes of each file (e.txt is empty), with
\* metadata["source"] set to the file's name
Chunks(f) ==
    IF f = "a.pdf" THEN <<Doc("a.pdf", "a1"), Doc("a.pdf", "a2")>>
    ELSE IF f = "b.txt" THEN <<Doc("b.txt", "b1")>>
    ELSE <<>>

\* the document lists handed to create_from_documents / add_documents
Batches == {Chunks(f) : f \in Files} \ {<<>>}

\* error kinds
NoError == ""
NotInitialized == "ValueError: Vector store is not initialized"
NotFound == "FileNotFoundError"
IndexError == "index error"

-----------------------------------------------------------------------------
(* FAISS store: similarity of a chunk to a query, ranking *)

\* the embedding similarity of chunk d to query q (a fixed table)
Score(q, d) ==
    IF q = "q1"
    THEN (IF d.text = "a1" THEN 3 ELSE 2)
    ELSE (IF d.text = "a2" THEN 3 ELSE IF d.text = "b1" THEN 2 ELSE 1)

\* entry i ranks before entry j: higher score, ties by insertion order
Before(entries, q, i, j) ==
    \/ Score(q, entries[i]) > Score(q, entries[j])
    \/ Score(q, entries[i]) = Score(q, entries[j]) /\ i < j

\* the position (1 = best) of entry i in the ranking
Rank(entries, q, i) ==
    1 + Cardinality({j \in 1..Len(entries) : Before(entries, q, j, i)})

\* entry indices in ranking order
Ranking(entries, q) ==
    [r \in 1..Len(entries) |->
        CHOOSE i \in 1..Len(entries) : Rank(entries, q, i) = r]

Min(a, b) == IF a < b THEN a ELSE b

\* FAISS.similarity_search_with_score(query, k): the k best (doc, score); the
\* flat index refuses a k that is not positive
similarity_search_with_score(entries, q, k) ==
    IF k <= 0
    THEN [err |-> IndexError, scored |-> <<>>]
    ELSE [err |-> NoError,
          scored |-> [r \in 1..Min(k, Len(entries)) |->
                        <<entries[Ranking(entries, q)[r]],
                          Score(q, entries[Ranking(entries, q)[r]])>>]]

\* FAISS.similarity_search(query, k): the documents of the k best
similarity_search(entries, q, k) ==
    LET r == similarity_search_with_score(entries, q, k)
    IN  [err |-> r.err, docs |-> [i \in 1..Len(r.scored) |-> r.scored[i][1]]]

-----------------------------------------------------------------------------
(* VectorStoreManager *)

is_initialized(vs) == vs # None

Entries(vs) == IF vs = None THEN <<>> ELSE vs[1]

\* the new _vector_store
create_from_documents(vs, documents) == Some(documents)

\* add_documents that rebuilds the store from the new documents alone
add_documents_replacing(vs, documents) == create_from_documents(vs, documents)

\* the new _vector_store
add_documents(vs, documents) ==
    IF ~is_initialized(vs)
    THEN create_from_documents(vs, documents)
    ELSE Some(Entries(vs) \o documents)

\* k or settings.TOP_K_RESULTS
KOrDefault(k) == IF k = None \/ k = Some(0) THEN TOP_K_RESULTS ELSE k[1]

\* search that always asks for settings.TOP_K_RESULTS documents
search_default_k(vs, q, k) ==
    IF ~is_initialized(vs)
    THEN [err |-> NotInitialized, docs |-> <<>>]
    ELSE similarity_search(Entries(vs), q, TOP_K_RESULTS)

search(vs, q, k) ==
    IF ~is_initialized(vs)
    THEN [err |-> NotInitialized, docs |-> <<>>]
    ELSE similarity_search(Entries(vs), q, KOrDefault(k))

search_with_scores(vs, q, k) ==
    IF ~is_initialized(vs)
    THEN [err |-> NotInitialized, scored |-> <<>>]
    ELSE similarity_search_with_score(Entries(vs), q, KOrDefault(k))

\* path or self.index_path
PathOrDefault(path) == IF path = None THEN IndexPath ELSE path[1]

\* save without the is_initialized guard: save_local is called on None
save_unguarded(vs, dsk, path) ==
    IF ~is_initialized(vs)
    THEN [err |-> "AttributeError", disk |-> dsk]
    ELSE [err |-> NoError,
          disk |-> [dsk EXCEPT ![PathOrDefault(path)] = Some(Entries(vs))]]

\* the outcome and the new persisted index
save(vs, dsk, path) ==
    IF ~is_initialized(vs)
    THEN [err |-> NotInitialized, disk |-> dsk]
    ELSE [err |-> NoError,
          disk |-> [dsk EXCEPT ![PathOrDefault(path)] = Some(Entries(vs))]]

\* load that reads the index without keeping it
load_not_assigning(vs, dsk, path) ==
    IF dsk[PathOrDefault(path)] = None
    THEN [err |-> NotFound, vs |-> vs]
    ELSE [err |-> NoError, vs |-> vs]

\* load that drops the current index before it looks for the path
load_clearing(vs, dsk, path) ==
    IF dsk[PathOrDefault(path)] = None
    THEN [err |-> NotFound, vs |-> None]
    ELSE [err |-> NoError, vs |-> Some(dsk[PathOrDefault(path)][1])]

\* the outcome and the new _vector_store
load(vs, dsk, path) ==
    IF dsk[PathOrDefault(path)] = None
    THEN [err |-> NotFound, vs |-> vs]
    ELSE [err |-> NoError, vs |-> Some(dsk[PathOrDefault(path)][1])]

\* the new _vector_store
clear(vs) == None

-----------------------------------------------------------------------------
(* RAGChain *)

\* retrieve without the is_initialized guard
retrieve_unguarded(vs, q, k) ==
    LET r == search(vs, q, k)
    IN  [err |-> r.err, docs |-> r.docs, searched |-> TRUE]

\* the documents, and whether the index's search was called
retrieve(vs, q, k) ==
    IF ~is_initialized(vs)
    THEN [err |-> NoError, docs |-> <<>>, searched |-> FALSE]
    ELSE LET r == search(vs, q, k)
         IN  [err |-> r.err, docs |-> r.docs, searched |-> TRUE]

-----------------------------------------------------------------------------
(* Initial state: a fresh manager, a fresh session, no query *)

NoRet == [op |-> "none", err |-> NoError, docs |-> <<>>, scored |-> <<>>,
          searched |-> FALSE, k |-> None, arg |-> <<>>, kind |-> "", ctx |-> <<>>,
          names |-> <<>>, dp |-> <<>>]

NoCalls == [doc |-> 0, web |-> 0, gen |-> 0, src_doc |-> 0, src_web |-> 0]

NoReply == [kind |-> "none", content |-> <<>>, sources |-> <<>>]

Init ==
    /\ vector_store = None
    /\ disk = [p \in Paths |-> None]
    /\ ret = NoRet
    /\ addLog = <<>>
    /\ addOnly = TRUE
    /\ rag_chain = FALSE
    /\ hybrid_search = FALSE
    /\ uploaded_files = <<>>
    /\ vector_store_initialized = FALSE
    /\ upload_err = NoError
    /\ ingest = <<>>
    /\ pc = "idle"
    /\ query = "q1"
    /\ use_web_search = FALSE
    /\ response = None
    /\ web = None
    /\ doc_results = <<>>
    /\ context = None
    /\ out = <<>>
    /\ service = "none"
    /\ err = NoError
    /\ sources = <<>>
    /\ calls = NoCalls
    /\ reply = NoReply

-----------------------------------------------------------------------------
(* Direct calls of the VectorStoreManager / RAGChain API *)

CreateFromDocuments(documents) ==
    /\ Len(documents) <= MaxEntries
    /\ vector_store' = create_from_documents(vector_store, documents)
    /\ ret' = [NoRet EXCEPT !.op = "create_from_documents"]
    /\ addOnly' = FALSE
    /\ addLog' = <<>>
    /\ UNCHANGED <<disk, uiVars, qVars>>

AddDocuments(documents) ==
    /\ Len(Entries(vector_store)) + Len(documents) <= MaxEntries
    /\ vector_store' = add_documents(vector_store, documents)
    /\ ret' = [NoRet EXCEPT !.op = "add_documents"]
    /\ addLog' = IF addOnly THEN addLog \o documents ELSE <<>>
    /\ UNCHANGED <<disk, addOnly, uiVars, qVars>>

Search(q, k) ==
    /\ LET r == search(vector_store, q, k)
       IN  ret' = [NoRet EXCEPT !.op = "search", !.arg = [q |-> q], !.k = k,
                                !.err = r.err, !.docs = r.docs]
    /\ UNCHANGED <<vector_store, disk, addLog, addOnly, uiVars, qVars>>

SearchWithScores(q, k) ==
    /\ LET r == search_with_scores(vector_store, q, k)
       IN  ret' = [NoRet EXCEPT !.op = "search_with_scores", !.k = k,
                                !.err = r.err, !.scored = r.scored]
    /\ UNCHANGED <<vector_store, disk, addLog, addOnly, uiVars, qVars>>

Save(path) ==
    /\ disk' = save(vector_store, disk, path).disk
    /\ ret' = [NoRet EXCEPT !.op = "save", !.err = save(vector_store, disk, path).err]
    /\ UNCHANGED <<vector_store, addLog, addOnly, uiVars, qVars>>

Load(path) ==
    /\ vector_store' = load(vector_store, disk, path).vs
    /\ ret' = [NoRet EXCEPT !.op = "load", !.err = load(vector_store, disk, path).err]
    /\ addOnly' = (addOnly /\ load(vector_store, disk, path).err # NoError)
    /\ addLog' = IF addOnly' THEN addLog ELSE <<>>
    /\ UNCHANGED <<disk, uiVars, qVars>>

Clear ==
    /\ vector_store' = clear(vector_store)
    /\ ret' = [NoRet EXCEPT !.op = "clear"]
    /\ addOnly' = FALSE
    /\ addLog' = <<>>
    /\ UNCHANGED <<disk, uiVars, qVars>>

Retrieve(q, k) ==
    /\ LET r == retrieve(vector_store, q, k)
       IN  ret' = [NoRet EXCEPT !.op = "retrieve", !.k = k, !.err = r.err,
                                !.docs = r.docs, !.searched = r.searched]
    /\ UNCHANGED <<vector_store, disk, addLog, addOnly, uiVars, qVars>>

NextVS ==
    \/ \E documents \in Batches : CreateFromDocuments(documents)
    \/ \E documents \in Batches : AddDocuments(documents)
    \/ \E q \in Queries, k \in KArgs : Search(q, k)
    \/ \E q \in Queries, k \in KArgs : SearchWithScores(q, k)
    \/ \E path \in PathArgs : Save(path)
    \/ \E path \in PathArgs : Load(path)
    \/ Clear
    \/ \E q \in Queries, k \in KArgs : Retrieve(q, k)

SpecVS == Init /\ [][NextVS]_vars

-----------------------------------------------------------------------------
(* TavilySearchTool *)

Urls == {"u1", "u2"}

\* what the provider returns for a query: nothing (None or {}), or a dictionary
\* that may hold an answer and result items (each with its url)
ProviderResponses ==
    {[present |-> FALSE, answer |-> FALSE, urls |-> <<>>]}
    \cup {[present |-> TRUE, answer |-> a, urls |-> u] :
            a \in BOOLEAN, u \in SeqsUpTo(Urls, MaxWebResults)}

\* one part of the formatted text
Part(tag, i, url) == [tag |-> tag, i |-> i, url |-> url]

\* formatted_parts of _format_results
formatted_parts(results) ==
    (IF results.answer THEN <<Part("Summary", 0, "")>> ELSE <<>>)
    \o [i \in 1..Len(results.urls) |-> Part("Result", i, results.urls[i])]

\* what _format_results returns: a bare string, a (text, url) pair, or it raises
\* because the local url was never bound
format_results(results) ==
    IF ~results.present
    THEN [kind |-> "str", text |-> <<Part("No search results found.", 0, "")>>,
          url |-> "", err |-> NoError]
    ELSE IF results.urls = <<>>
    THEN [kind |-> "raise", text |-> <<>>, url |-> "", err |-> "UnboundLocalError"]
    ELSE [kind |-> "pair",
          text |-> IF formatted_parts(results) # <<>>
                   THEN formatted_parts(results)
                   ELSE <<Part("No results found.", 0, "")>>,
          url |-> results.urls[Len(results.urls)], err |-> NoError]

\* TavilySearchTool.search: the provider's response, formatted
tavily_search(results) == format_results(results)

\* web_results, url = self.tavily_search.search(query): a bare string does not
\* unpack into two names
unpack_search(results) ==
    LET r == tavily_search(results)
    IN  IF r.kind = "str"
        THEN [r EXCEPT !.kind = "raise", !.err = "ValueError: too many values to unpack"]
        ELSE r

-----------------------------------------------------------------------------
(* Context assembly *)

\* one block of a context: a header, a numbered document, the web text or a sentinel
Block(tag, i, source, text, webtext) ==
    [tag |-> tag, i |-> i, source |-> source, text |-> text, web |-> webtext]

\* HybridSearchManager.format_hybrid_context, and the same lines inline in get_response
format_hybrid_context(docs, web_results) ==
    LET doc_parts ==
            IF docs # <<>>
            THEN <<Block("=== From Your Documents ===", 0, "", "", <<>>)>>
                 \o [i \in 1..Len(docs) |->
                        Block("Doc", i, docs[i].source, docs[i].text, <<>>)]
            ELSE <<>>
        web_parts ==
            IF web_results # <<>>
            THEN <<Block("=== From Web Search ===", 0, "", "", <<>>),
                   Block("Web", 0, "", "", web_results)>>
            ELSE <<>>
    IN  IF doc_parts \o web_parts # <<>>
        THEN doc_parts \o web_parts
        ELSE <<Block("No context available.", 0, "", "", <<>>)>>

\* _format_context joining the blocks without the check for no documents
format_context_no_sentinel(documents) ==
    [i \in 1..Len(documents) |->
        Block("Document", i, documents[i].source, documents[i].text, <<>>)]

\* RAGChain._format_context
format_context(documents) ==
    IF documents = <<>>
    THEN <<Block("No relevant context found.", 0, "", "", <<>>)>>
    ELSE [i \in 1..Len(documents) |->
            Block("Document", i, documents[i].source, documents[i].text, <<>>)]

-----------------------------------------------------------------------------
(* ChatInterface *)

\* a fragment of the stream
Advisory == [kind |-> "advisory", n |-> 0]
Fragment(n) == [kind |-> "fragment", n |-> n]

GenerationFailure == "GenerationFailure"
UnsupportedFormat == "ValueError: Unsupported file type"

RECURSIVE process_files_skipping(_, _, _)
\* the loop passing over a file of an unsupported kind instead of raising
process_files_skipping(files, all_chunks, uploaded) ==
    IF files = <<>>
    THEN [err |-> NoError, chunks |-> all_chunks, uploaded |-> uploaded]
    ELSE IF Head(files) \notin {"a.pdf", "b.txt", "e.txt"}
    THEN process_files_skipping(Tail(files), all_chunks, uploaded)
    ELSE process_files_skipping(Tail(files), all_chunks \o Chunks(Head(files)),
                                IF Head(files) \in Range(uploaded)
                                THEN uploaded
                                ELSE Append(uploaded, Head(files)))

RECURSIVE process_files(_, _, _)
\* the loop of process_uploaded_files: the chunks gathered, the names tracked, and
\* the error that ended it, if any
process_files(files, all_chunks, uploaded) ==
    IF files = <<>>
    THEN [err |-> NoError, chunks |-> all_chunks, uploaded |-> uploaded]
    ELSE IF Head(files) \notin {"a.pdf", "b.txt", "e.txt"}
    THEN [err |-> UnsupportedFormat, chunks |-> all_chunks, uploaded |-> uploaded]
    ELSE process_files(Tail(files), all_chunks \o Chunks(Head(files)),
                       IF Head(files) \in Range(uploaded)
                       THEN uploaded
                       ELSE Append(uploaded, Head(files)))

ChunkCount(files) == Len(process_files(files, <<>>, <<>>).chunks)

\* a run of main beginning while the session's previous run is inside add_documents
run_can_start_during_add(p) == p \in {"idle", "ingesting"}

\* a session runs main one run at a time: the next run begins when the previous
\* one has returned
run_can_start(p) == p = "idle"

\* main, "Process Documents": process_uploaded_files(uploaded_files) in a try, up
\* to the call of add_documents (line 61) or to the end when there is none
ProcessUploadedFiles(files) ==
    /\ run_can_start(pc)
    /\ Len(Entries(vector_store)) + ChunkCount(files) <= MaxEntries
    /\ LET r == process_files(files, <<>>, uploaded_files)
       IN  /\ uploaded_files' = r.uploaded
           /\ upload_err' = r.err
           /\ IF r.err = NoError /\ r.chunks # <<>>
              THEN /\ ingest' = r.chunks
                   /\ pc' = "ingesting"
              ELSE /\ ingest' = <<>>
                   /\ pc' = "run_end"
    /\ UNCHANGED <<vsVars, rag_chain, hybrid_search, vector_store_initialized, query,
                   use_web_search, response, web, doc_results, context, out, service,
                   err, sources, calls, reply>>

\* add_documents returning without the session flag being set after it
AddToVectorStore_flag_unset ==
    /\ pc = "ingesting"
    /\ vector_store' = add_documents(vector_store, ingest)
    /\ addLog' = IF addOnly THEN addLog \o ingest ELSE <<>>
    /\ ingest' = <<>>
    /\ pc' = "run_end"
    /\ UNCHANGED <<disk, ret, addOnly, rag_chain, hybrid_search, uploaded_files,
                   vector_store_initialized, upload_err, query, use_web_search,
                   response, web, doc_results, context, out, service, err, sources,
                   calls, reply>>

\* process_uploaded_files, lines 61-62: add_documents returns with the index
\* extended, then the session flag is set
AddToVectorStore ==
    /\ pc = "ingesting"
    /\ vector_store' = add_documents(vector_store, ingest)
    /\ vector_store_initialized' = TRUE
    /\ addLog' = IF addOnly THEN addLog \o ingest ELSE <<>>
    /\ ingest' = <<>>
    /\ pc' = "run_end"
    /\ UNCHANGED <<disk, ret, addOnly, rag_chain, hybrid_search, uploaded_files,
                   upload_err, query, use_web_search, response, web, doc_results,
                   context, out, service, err, sources, calls, reply>>

\* get_response without the advisory short-circuit
get_response_branch_no_advisory(vs, rc, w) ==
    IF w THEN "web"
    ELSE IF rc THEN "rag"
    ELSE "empty"

\* the branch get_response takes after its first lines: rc is rag_chain after the
\* lazy initialisation
get_response_branch(vs, rc, w) ==
    IF ~is_initialized(vs) /\ ~w THEN "advisory"
    ELSE IF w THEN "web"
    ELSE IF rc THEN "rag"
    ELSE "empty"

\* get_response without its first two lines: the chain is never made on demand
lazy_chain_absent(vs, rc) == rc

\* rag_chain (and hybrid_search) after "if self.rag_chain is None and
\* self.vector_store.is_initialized: self.initialize_rag_chain()"
lazy_chain(vs, rc) == rc \/ is_initialized(vs)

\* main takes a prompt and starts streaming get_response(prompt, use_web_search)
AskQuestion(q, w) ==
    /\ run_can_start(pc)
    /\ query' = q
    /\ use_web_search' = w
    /\ rag_chain' = lazy_chain(vector_store, rag_chain)
    /\ hybrid_search' = (IF ~rag_chain THEN lazy_chain(vector_store, hybrid_search)
                         ELSE hybrid_search)
    /\ LET b == get_response_branch(vector_store, rag_chain', w)
       IN  /\ out' = IF b = "advisory" THEN <<Advisory>> ELSE <<>>
           /\ pc' = CASE b = "advisory" -> "stream_done"
                      [] b = "web" -> "web_search"
                      [] b = "rag" -> "rag_retrieve"
                      [] OTHER -> "stream_done"
    /\ UNCHANGED <<vsVars, uploaded_files, vector_store_initialized, upload_err,
                   ingest, response, web, doc_results, context, service, err, sources, calls,
                   reply>>

\* get_response, line 102: the web search
WebSearch(results) ==
    /\ pc = "web_search"
    /\ calls' = [calls EXCEPT !.web = @ + 1]
    /\ LET r == unpack_search(results)
       IN  IF r.kind = "pair"
           THEN /\ web' = Some([text |-> r.text, url |-> r.url])
                /\ pc' = "doc_search"
                /\ UNCHANGED err
           ELSE /\ err' = r.err
                /\ pc' = "stream_failed"
                /\ UNCHANGED web
    /\ response' = Some(results)
    /\ UNCHANGED <<vsVars, uiVars, query, use_web_search, doc_results, context, out,
                   service, sources, reply>>

\* the web branch going on to the context without the document search
DocSearch_skipped ==
    /\ pc = "doc_search"
    /\ pc' = "assemble"
    /\ UNCHANGED <<vsVars, uiVars, query, use_web_search, response, web, doc_results,
                   context, out, service, err, sources, calls, reply>>

\* get_response, lines 105-107: the document search of the web branch
DocSearch ==
    /\ pc = "doc_search"
    /\ IF is_initialized(vector_store)
       THEN /\ doc_results' = search(vector_store, query, None).docs
            /\ calls' = [calls EXCEPT !.doc = @ + 1]
       ELSE UNCHANGED <<doc_results, calls>>
    /\ pc' = "assemble"
    /\ UNCHANGED <<vsVars, uiVars, query, use_web_search, response, web, context, out,
                   service, err, sources, reply>>

\* get_response, lines 110-124: the context of the web branch
Assemble ==
    /\ pc = "assemble"
    /\ context' = Some(format_hybrid_context(doc_results, web[1].text))
    /\ pc' = "generate"
    /\ UNCHANGED <<vsVars, uiVars, query, use_web_search, response, web, doc_results,
                   out, service, err, sources, calls, reply>>

\* RAGChain.query_stream, steps 1 and 2: retrieve and format the context
RagRetrieve ==
    /\ pc = "rag_retrieve"
    /\ LET r == retrieve(vector_store, query, None)
       IN  /\ doc_results' = r.docs
           /\ calls' = [calls EXCEPT !.doc = @ + (IF r.searched THEN 1 ELSE 0)]
           /\ context' = Some(format_context(r.docs))
    /\ pc' = "generate"
    /\ UNCHANGED <<vsVars, uiVars, query, use_web_search, response, web, out, service,
                   err, sources, reply>>

\* chain.stream({context, question}) is called
Generate ==
    /\ pc = "generate"
    /\ calls' = [calls EXCEPT !.gen = @ + 1]
    /\ service' = "streaming"
    /\ pc' = "streaming"
    /\ UNCHANGED <<vsVars, uiVars, query, use_web_search, response, web, doc_results,
                   context, out, err, sources, reply>>

\* the stream after the generation service produced one more fragment
yield_fragment(o) == Append(o, Fragment(Len(o) + 1))

\* the generation service produces a fragment, which get_response yields
Yield ==
    /\ pc = "streaming"
    /\ Len(out) < MaxFragments
    /\ out' = yield_fragment(out)
    /\ UNCHANGED <<vsVars, uiVars, pc, query, use_web_search, response, web,
                   doc_results, context, service, err, sources, calls, reply>>

\* the generation service ends the answer
EndOfStream ==
    /\ pc = "streaming"
    /\ service' = "ended"
    /\ pc' = "stream_done"
    /\ UNCHANGED <<vsVars, uiVars, query, use_web_search, response, web, doc_results,
                   context, out, err, sources, calls, reply>>

\* get_response catching the exception and ending the stream normally
generation_error_swallowed(e) == [pc |-> "stream_done", err |-> NoError]

\* what get_response does with an exception of the generation service: nothing,
\* it leaves the generator (the position and the error of the stream)
generation_error(e) == [pc |-> "stream_failed", err |-> e]

\* the generation service fails
GenerationFails ==
    /\ pc = "streaming"
    /\ pc' = generation_error(GenerationFailure).pc
    /\ err' = generation_error(GenerationFailure).err
    /\ service' = "raised"
    /\ UNCHANGED <<vsVars, uiVars, query, use_web_search, response, web, doc_results,
                   context, out, sources, calls, reply>>

\* one entry of the source list: the names joined into one string, or the web url
DocSources(names) == [kind |-> "docs", names |-> names, url |-> ""]
WebSource(url) == [kind |-> "web", names |-> <<>>, url |-> url]

\* ", ".join(list(set(doc.metadata.get("source") for doc in docs)))
doc_names(docs) == list_set([i \in 1..Len(docs) |-> docs[i].source])

\* ChatInterface.get_sources: the list, the error that ended it, and the searches made
get_sources(vs, q, w, results) ==
    LET doc_part ==
            IF is_initialized(vs) /\ ~w
            THEN <<DocSources(doc_names(search(vs, q, None).docs))>>
            ELSE <<>>
        r == unpack_search(results)
    IN  IF ~w
        THEN [err |-> NoError, sources |-> doc_part,
              doc |-> Len(doc_part), web |-> 0]
        ELSE IF r.kind # "pair"
        THEN [err |-> r.err, sources |-> <<>>, doc |-> Len(doc_part), web |-> 1]
        ELSE [err |-> NoError,
              sources |-> doc_part \o (IF r.text # <<>> THEN <<WebSource(r.url)>> ELSE <<>>),
              doc |-> Len(doc_part), web |-> 1]

\* main, after the stream ended: get_sources, show them, add_message
ShowSources(results) ==
    /\ pc = "stream_done"
    /\ LET r == get_sources(vector_store, query, use_web_search, results)
       IN  /\ calls' = [calls EXCEPT !.src_doc = r.doc, !.src_web = r.web]
           /\ err' = r.err
           /\ sources' = r.sources
           /\ reply' = IF r.err = NoError
                       THEN [kind |-> "answer", content |-> out, sources |-> r.sources]
                       ELSE [kind |-> "error", content |-> <<>>, sources |-> <<>>]
    /\ pc' = "run_end"
    /\ UNCHANGED <<vsVars, uiVars, query, use_web_search, response, web, doc_results,
                   context, out, service>>

\* main, except branch: the stream raised; st.error and add_message of the error
ShowError ==
    /\ pc = "stream_failed"
    /\ reply' = [kind |-> "error", content |-> <<>>, sources |-> <<>>]
    /\ pc' = "run_end"
    /\ UNCHANGED <<vsVars, uiVars, query, use_web_search, response, web, doc_results,
                   context, out, service, err, sources, calls>>

\* main returns: the run's locals are gone, the session state and the
\* ChatInterface stay for the next run
EndRun ==
    /\ pc = "run_end"
    /\ pc' = "idle"
    /\ query' = "q1"
    /\ use_web_search' = FALSE
    /\ response' = None
    /\ web' = None
    /\ doc_results' = <<>>
    /\ context' = None
    /\ out' = <<>>
    /\ service' = "none"
    /\ err' = NoError
    /\ sources' = <<>>
    /\ calls' = NoCalls
    /\ reply' = NoReply
    /\ upload_err' = NoError
    /\ UNCHANGED <<vsVars, rag_chain, hybrid_search, uploaded_files,
                   vector_store_initialized, ingest>>

FileLists == SeqsUpTo(Files, MaxFiles) \ {<<>>}

Next ==
    \/ \E files \in FileLists : ProcessUploadedFiles(files)
    \/ AddToVectorStore
    \/ \E q \in Queries, w \in BOOLEAN : AskQuestion(q, w)
    \/ \E results \in ProviderResponses : WebSearch(results)
    \/ DocSearch
    \/ Assemble
    \/ RagRetrieve
    \/ Generate
    \/ Yield
    \/ EndOfStream
    \/ GenerationFails
    \/ \E results \in ProviderResponses : ShowSources(results)
    \/ ShowError
    \/ EndRun

Spec == Init /\ [][Next]_vars

-----------------------------------------------------------------------------
(* RAGChain.query and DocumentProcessor *)

\* RAGChain.query: retrieve, format the context, generate (ok: the generation
\* service answers), and report the sources as a set
rag_query(vs, q, k, ok) ==
    LET r == retrieve(vs, q, k)
        none == [err |-> NoError, answered |-> FALSE, sources |-> <<>>,
                 context |-> <<>>, documents |-> <<>>]
    IN  IF r.err # NoError THEN [none EXCEPT !.err = r.err]
        ELSE IF ~ok THEN [none EXCEPT !.err = GenerationFailure]
        ELSE [err |-> NoError, answered |-> TRUE,
              sources |-> list_set([i \in 1..Len(r.docs) |-> r.docs[i].source]),
              context |-> format_context(r.docs),
              documents |-> r.docs]

\* "x or default": the default replaces None and every falsy x, so also 0
or_default(x, default) == IF x # None /\ x[1] # 0 THEN x[1] ELSE default

\* DocumentProcessor.__init__: the chunk_size and chunk_overlap the splitter gets
document_processor_init(chunk_size, chunk_overlap) ==
    [chunk_size |-> or_default(chunk_size, CHUNK_SIZE),
     chunk_overlap |-> or_default(chunk_overlap, CHUNK_OVERLAP)]

-----------------------------------------------------------------------------
(* Direct calls of the functions, on arguments drawn from bounded sets *)

\* the indexes a caller can have built
Stores == {None} \cup {Some(s) : s \in SeqsUpTo(Docs, MaxEntries) \ {<<>>}}

\* the texts a web search can give, and no text
WebTexts == {<<>>} \cup {format_results(r).text : r \in ProviderResponses}

ChunkSizeArgs == {None} \cup {Some(n) : n \in {100, CHUNK_SIZE}}
ChunkOverlapArgs == {None} \cup {Some(n) : n \in {0, 50, CHUNK_OVERLAP}}

FormatContext(documents) ==
    /\ ret.op = "none"
    /\ ret' = [NoRet EXCEPT !.op = "_format_context", !.arg = [docs |-> documents],
                            !.ctx = format_context(documents)]
    /\ UNCHANGED <<vector_store, disk, addLog, addOnly, uiVars, qVars>>

FormatHybridContext(docs, web_results) ==
    /\ ret.op = "none"
    /\ ret' = [NoRet EXCEPT !.op = "format_hybrid_context",
                            !.arg = [docs |-> docs, web |-> web_results],
                            !.ctx = format_hybrid_context(docs, web_results)]
    /\ UNCHANGED <<vector_store, disk, addLog, addOnly, uiVars, qVars>>

Query(vs, q, k, ok) ==
    /\ ret.op = "none"
    /\ LET r == rag_query(vs, q, k, ok)
       IN  ret' = [NoRet EXCEPT !.op = "query", !.arg = [vs |-> vs, q |-> q], !.k = k,
                                !.err = r.err, !.docs = r.documents,
                                !.ctx = r.context, !.names = r.sources]
    /\ UNCHANGED <<vector_store, disk, addLog, addOnly, uiVars, qVars>>

GetSources(vs, q, w, results) ==
    /\ ret.op = "none"
    /\ LET r == get_sources(vs, q, w, results)
       IN  ret' = [NoRet EXCEPT !.op = "get_sources",
                                !.arg = [vs |-> vs, q |-> q, w |-> w],
                                !.err = r.err, !.names = r.sources]
    /\ UNCHANGED <<vector_store, disk, addLog, addOnly, uiVars, qVars>>

NewDocumentProcessor(chunk_size, chunk_overlap) ==
    /\ ret.op = "none"
    /\ ret' = [NoRet EXCEPT !.op = "DocumentProcessor",
                            !.arg = [chunk_size |-> chunk_size,
                                     chunk_overlap |-> chunk_overlap],
                            !.dp = document_processor_init(chunk_size, chunk_overlap)]
    /\ UNCHANGED <<vector_store, disk, addLog, addOnly, uiVars, qVars>>

\* the caller is done with the result
Return ==
    /\ ret.op # "none"
    /\ ret' = NoRet
    /\ UNCHANGED <<vector_store, disk, addLog, addOnly, uiVars, qVars>>

NextFn ==
    \/ \E documents \in SeqsUpTo(Docs, MaxEntries) : FormatContext(documents)
    \/ \E docs \in SeqsUpTo(Docs, MaxEntries), web_results \in WebTexts :
            FormatHybridContext(docs, web_results)
    \/ \E vs \in Stores, q \in Queries, k \in KArgs, ok \in BOOLEAN : Query(vs, q, k, ok)
    \/ \E vs \in Stores, q \in Queries, w \in BOOLEAN, results \in ProviderResponses :
            GetSources(vs, q, w, results)
    \/ \E chunk_size \in ChunkSizeArgs, chunk_overlap \in ChunkOverlapArgs :
            NewDocumentProcessor(chunk_size, chunk_overlap)
    \/ Return

SpecFn == Init /\ [][NextFn]_vars

-----------------------------------------------------------------------------
(* The claims *)

IsPrefix(s, t) == Len(s) <= Len(t) /\ \A i \in 1..Len(s) : s[i] = t[i]

\* a run of main that handles a prompt (not an upload) is under way or at its end
QueryRun == pc \notin {"idle", "ingesting"} /\ ~(pc = "run_end" /\ reply.kind = "none")

\* a provider response with neither an answer nor a result item
EmptyResponse(r) == ~r.present \/ (~r.answer /\ r.urls = <<>>)

SentinelContext == <<Block("No context available.", 0, "", "", <<>>)>>

InvalidArgument == "InvalidArgument"

\* C1: when a query has been answered, get_sources reports document sources if and
\* only if get_response ran the document search for that query, and a web source
\* if and only if it ran the web search.
C1_SourcesNameConsultedBranches ==
    (pc = "run_end" /\ reply.kind = "answer") =>
        /\ (\E i \in 1..Len(sources) : sources[i].kind = "docs") <=> (calls.doc > 0)
        /\ (\E i \in 1..Len(sources) : sources[i].kind = "web") <=> (calls.web > 0)

\* C2: a query with web search disabled on an uninitialized vector store streams
\* exactly the advisory message and ends, with no document search, no web search
\* and no generation call; get_sources then returns the empty list.
C2_AdvisoryShortCircuit ==
    (QueryRun /\ ~use_web_search /\ ~is_initialized(vector_store)) =>
        /\ pc \in {"stream_done", "run_end"}
        /\ out = <<Advisory>>
        /\ service = "none"
        /\ calls.doc = 0 /\ calls.web = 0 /\ calls.gen = 0
        /\ context = None
        /\ pc = "run_end" =>
              /\ sources = <<>>
              /\ err = NoError
              /\ reply = [kind |-> "answer", content |-> <<Advisory>>, sources |-> <<>>]

C2_Witness ==
    /\ pc = "run_end"
    /\ reply.kind = "answer"
    /\ ~use_web_search
    /\ ~is_initialized(vector_store)
    /\ out = <<Advisory>>
    /\ sources = <<>>

\* C3: a query with web search enabled whose search branches all came back empty
\* (no documents, and an empty or absent provider response) has, once its stream
\* is over, had its context assembled as the sentinel and generation invoked on it.
C3_EmptyBranchesStillGenerate ==
    ( /\ QueryRun
      /\ pc \in {"stream_done", "stream_failed", "run_end"}
      /\ use_web_search
      /\ response # None
      /\ EmptyResponse(response[1])
      /\ doc_results = <<>>
      /\ service # "raised" ) =>
        /\ context = Some(SentinelContext)
        /\ calls.gen = 1

\* C4: with web search enabled, the context exists only after the web search and
\* (on an initialized index) the document search have both been made and have
\* returned, it is assembled from their two results, and generation starts only
\* once the context exists.
C4_SearchesBeforeAssemblyBeforeGeneration ==
    (QueryRun /\ use_web_search) =>
        /\ context # None =>
              /\ calls.web = 1
              /\ web # None
              /\ is_initialized(vector_store) =>
                    /\ calls.doc = 1
                    /\ doc_results = search(vector_store, query, None).docs
              /\ context[1] = format_hybrid_context(doc_results, web[1].text)
        /\ service # "none" => (context # None /\ calls.gen = 1)
        /\ out # <<>> => service # "none"

C4_Witness ==
    /\ pc = "streaming"
    /\ use_web_search
    /\ is_initialized(vector_store)
    /\ calls.doc = 1
    /\ calls.web = 1
    /\ Len(doc_results) = 3
    /\ out # <<>>

\* C5: when the generation service raises, the fragments already yielded stay as
\* they are, the stream ends with that error, no fragment follows, and main shows
\* the error; while streaming, the output only grows at its end.
C5_FailureKeepsPartialOutput ==
    [][ /\ (service # "raised" /\ service' = "raised") =>
              (out' = out /\ pc' = "stream_failed" /\ err' = GenerationFailure)
        /\ (service = "raised" /\ pc = "stream_failed") =>
              (out' = out /\ err' = err /\ pc' = "run_end" /\ reply'.kind = "error")
        /\ pc = "streaming" => IsPrefix(out, out') ]_vars

C5_Witness ==
    /\ pc = "run_end"
    /\ service = "raised"
    /\ err = GenerationFailure
    /\ Len(out) = 2
    /\ reply.kind = "error"

\* C6: create_from_documents on an initialized index fails and leaves the index
\* as it was.
C6_CreateOnInitializedFails ==
    [][ \A documents \in Batches :
            (is_initialized(vector_store) /\ CreateFromDocuments(documents)) =>
                (ret'.err # NoError /\ vector_store' = vector_store) ]_vars

C8_UninitializedCallsFail ==
    [][ ~is_initialized(vector_store) =>
          /\ \A q \in Queries, k \in KArgs :
                Search(q, k) => (ret'.err = NotInitialized /\ ret'.docs = <<>>
                                 /\ vector_store' = vector_store /\ disk' = disk)
          /\ \A q \in Queries, k \in KArgs :
                SearchWithScores(q, k) => (ret'.err = NotInitialized /\ ret'.scored = <<>>
                                           /\ vector_store' = vector_store /\ disk' = disk)
          /\ \A path \in PathArgs :
                Save(path) => (ret'.err = NotInitialized
                               /\ vector_store' = vector_store /\ disk' = disk) ]_vars

C8_Witness ==
    /\ ret.op = "save"
    /\ ret.err = NotInitialized
    /\ ~is_initialized(vector_store)
    /\ disk[IndexPath] # None

\* C9: RAGChain.retrieve calls the index's search exactly when the index is
\* initialized; on an uninitialized index it returns the empty sequence and no error.
C9_RetrieveEmptyWhenUninitialized ==
    ret.op = "retrieve" =>
        /\ ret.searched <=> is_initialized(vector_store)
        /\ ~is_initialized(vector_store) => (ret.err = NoError /\ ret.docs = <<>>)
        /\ ret.err # NotInitialized

C9_Witness ==
    /\ ret.op = "retrieve"
    /\ ~is_initialized(vector_store)
    /\ ret.k = Some(2)
    /\ ret.err = NoError
    /\ ret.docs = <<>>

\* C10: search and retrieve on an initialized index reject a caller-supplied k
\* that is zero or negative with InvalidArgument and return nothing.
C10_NonPositiveKRejected ==
    ( /\ ret.op \in {"search", "retrieve"}
      /\ is_initialized(vector_store)
      /\ ret.k # None
      /\ ret.k[1] <= 0 ) =>
        (ret.err = InvalidArgument /\ ret.docs = <<>>)

\* C11: the web search hands get_response a (text, url) pair for every response of
\* the provider: once the provider has answered, the pair is there, never a bare
\* string and never an exception.
C11_SearchReturnsPair ==
    response # None =>
        /\ tavily_search(response[1]).kind = "pair"
        /\ web # None

NoRelevantContext == <<Block("No relevant context found.", 0, "", "", <<>>)>>

\* C12: no context assembly returns the empty text; with no document and no web
\* text, _format_context and format_hybrid_context (the lines get_response has
\* inline) return their fixed sentinel, and query generates from a non-empty context.
C12_ContextNeverEmpty ==
    /\ ret.op \in {"_format_context", "format_hybrid_context"} => ret.ctx # <<>>
    /\ (ret.op = "_format_context" /\ ret.arg.docs = <<>>) => ret.ctx = NoRelevantContext
    /\ (ret.op = "format_hybrid_context" /\ ret.arg.docs = <<>> /\ ret.arg.web = <<>>)
            => ret.ctx = SentinelContext
    /\ (ret.op = "query" /\ ret.err = NoError) => ret.ctx # <<>>

C12_Witness ==
    /\ ret.op = "format_hybrid_context"
    /\ ret.arg.docs = <<>>
    /\ ret.arg.web = <<>>
    /\ Len(ret.ctx) = 1

\* the number of times x occurs in the list s
Count(s, x) == Cardinality({i \in 1..Len(s) : s[i] = x})

\* every source of the documents is named once in names, and nothing else is
NamedOnce(names, docs) ==
    /\ \A d \in Range(docs) : Count(names, d.source) = 1
    /\ Range(names) = {d.source : d \in Range(docs)}

\* C13: query reports each distinct source of the retrieved chunks exactly once and
\* its context keeps one block per chunk, numbered 1..n in retrieval order; the
\* entry get_sources makes of a document search names each distinct source once.
C13_SourcesOncePerSourceBlocksPerChunk ==
    /\ (ret.op = "query" /\ ret.err = NoError) =>
        /\ NamedOnce(ret.names, ret.docs)
        /\ ret.docs # <<>> =>
            /\ Len(ret.ctx) = Len(ret.docs)
            /\ \A i \in 1..Len(ret.docs) :
                /\ ret.ctx[i].i = i
                /\ ret.ctx[i].source = ret.docs[i].source
                /\ ret.ctx[i].text = ret.docs[i].text
    /\ (ret.op = "get_sources" /\ ret.err = NoError /\ ~ret.arg.w
            /\ is_initialized(ret.arg.vs)) =>
        /\ Len(ret.names) = 1
        /\ ret.names[1].kind = "docs"
        /\ NamedOnce(ret.names[1].names, search(ret.arg.vs, ret.arg.q, None).docs)

C13_Witness ==
    /\ ret.op = "query"
    /\ ret.err = NoError
    /\ Len(ret.docs) = 2
    /\ ret.docs[1].source = ret.docs[2].source
    /\ Len(ret.names) = 1
    /\ Len(ret.ctx) = 2

\* the positive k a caller can pass
PositiveK == 1..(MaxEntries + 1)

\* a manager made after the save, loading the configured path
FreshLoad == load(None, disk, None)

C15_LoadMissingPathKeepsIndex ==
    [][\A path \in PathArgs :
        (disk[PathOrDefault(path)] = None /\ Load(path)) =>
            /\ ret'.err = NotFound
            /\ vector_store' = vector_store
            /\ disk' = disk]_vars

C15_Witness ==
    /\ ret.op = "load"
    /\ ret.err = NotFound
    /\ Len(Entries(vector_store)) >= 2

\* a parameter the caller supplied
Supplied(x) == x # None

\* C16: a DocumentProcessor made with a chunk_size S > 0 and a chunk_overlap O,
\* 0 <= O < S, splits with exactly S and O.
C16_CallerValuesUsed ==
    (/\ ret.op = "DocumentProcessor"
     /\ Supplied(ret.arg.chunk_size) /\ Supplied(ret.arg.chunk_overlap)
     /\ ret.arg.chunk_size[1] > 0
     /\ 0 <= ret.arg.chunk_overlap[1]
     /\ ret.arg.chunk_overlap[1] < ret.arg.chunk_size[1]) =>
        /\ ret.dp.chunk_size = ret.arg.chunk_size[1]
        /\ ret.dp.chunk_overlap = ret.arg.chunk_overlap[1]

\* docs are the best Min(k, n) entries for q, by non-increasing similarity and,
\* among equal similarities, in insertion order
TopK(entries, q, k, docs) ==
    /\ Len(docs) = Min(k, Len(entries))
    /\ \E f \in [1..Len(docs) -> 1..Len(entries)] :
        /\ \A r \in 1..Len(docs) : docs[r] = entries[f[r]]
        /\ \A r, t \in 1..Len(docs) : r < t =>
            /\ Score(q, docs[r]) >= Score(q, docs[t])
            /\ Score(q, docs[r]) = Score(q, docs[t]) => f[r] < f[t]
        /\ \A r \in 1..Len(docs), j \in 1..Len(entries) :
            (\A t \in 1..Len(docs) : f[t] # j) =>
                /\ Score(q, docs[r]) >= Score(q, entries[j])
                /\ Score(q, docs[r]) = Score(q, entries[j]) => f[r] < j

OutsideTxtPdf(f) == f = "x.doc"

\* C18: process_uploaded_files on a list holding a file of a kind outside
\* {.txt, .pdf} ends with the UnsupportedFormat error in its caller's hands, no
\* add_documents call is begun, and the vector store holds what it held before.
C18_UnsupportedFormatKeepsStore ==
    [][\A files \in FileLists :
        (ProcessUploadedFiles(files) /\ \E i \in 1..Len(files) : OutsideTxtPdf(files[i])) =>
            /\ upload_err' = UnsupportedFormat
            /\ pc' = "run_end"
            /\ ingest' = <<>>
            /\ vector_store' = vector_store]_vars

C18_Witness ==
    /\ pc = "run_end"
    /\ upload_err = UnsupportedFormat
    /\ is_initialized(vector_store)
    /\ ingest = <<>>

C20_ListedFilesAreIndexed ==
    pc \in {"idle", "run_end"} =>
        \A i \in 1..Len(uploaded_files) :
            /\ Chunks(uploaded_files[i]) # <<>>
            /\ Range(Chunks(uploaded_files[i])) \subseteq Range(Entries(vector_store))

\* C21: when a query with web search enabled has been answered, the one web
\* search of get_response is the only one made for it, and the web url in the
\* source list is the url that search returned.
C21_WebSourceFromContextSearch ==
    (pc = "run_end" /\ reply.kind = "answer" /\ use_web_search) =>
        /\ calls.web + calls.src_web = 1
        /\ \A i \in 1..Len(sources) :
            sources[i].kind = "web" => (web # None /\ sources[i].url = web[1].url)

\* get_response has returned or raised, or main has handled it
StreamOver == pc \in {"stream_done", "stream_failed", "run_end"}

\* C22: a query with web search disabled on an initialized vector store finds
\* rag_chain set and goes through document retrieval and generation; a stream
\* that get_response ended normally is the advisory or follows a generation call.
C22_RagChainSetWhenNeeded ==
    /\ (QueryRun /\ ~use_web_search /\ is_initialized(vector_store)) =>
        /\ rag_chain
        /\ StreamOver => (calls.doc > 0 /\ calls.gen > 0)
    /\ pc = "stream_done" => (out = <<Advisory>> \/ calls.gen > 0)

C22_Witness ==
    /\ pc = "stream_done"
    /\ ~use_web_search
    /\ is_initialized(vector_store)
    /\ rag_chain
    /\ calls.gen = 1
    /\ out = <<>>

\* C23: between the runs of a session, whatever process_uploaded_files calls were
\* made and however they ended, the session flag vector_store_initialized is
\* true exactly when the vector store is initialized.
C23_FlagMatchesStore ==
    pc \in {"idle", "run_end"} =>
        (vector_store_initialized <=> is_initialized(vector_store))

C23_Witness ==
    /\ pc = "run_end"
    /\ upload_err = UnsupportedFormat
    /\ vector_store_initialized
    /\ is_initialized(vector_store)

====
